---- MODULE Spec2Model ----
(***************************************************************************)
(* Model of ax/plot/pareto_utils.py: the 2-d observed Pareto extractor,    *)
(* the relativizer, the observed frontier builder and the reference point  *)
(* inferencer.  Numbers are exact: integers for outcome matrices, and      *)
(* rationals <<n, d>> (d > 0, lowest terms) for means, sems and bounds;    *)
(* <<0, 0>> is NaN.  A standard error is carried as its square, so that    *)
(* np.sqrt and the delta method stay rational.                             *)
(***************************************************************************)
EXTENDS Integers, Sequences, FiniteSets, TLC

VARIABLES
    \* _extract_observed_pareto_2d
    Y,                \* the N x Ycols outcome matrix, a sequence of rows
    Ycols,            \* Y.shape[1]
    reference_point,  \* <<>> for None, else <<r0, r1>>
    minimize,         \* <<b>> for a bool, <<b0, b1>> for a pair of bools
    Y_pareto,         \* the returned matrix
    ppc,              \* "call", "done" or "NotImplementedError"
    \* _relativize_values
    means,            \* the values to relativize
    sq_mean,          \* the mean of the status quo
    sems,             \* their standard errors (squared), NaN where missing
    sq_sem,           \* the standard error (squared) of the status quo, or NaN
    rel_out,          \* the returned pair <<means, sems>>
    rpc,              \* "call" or "done"
    \* get_observed_pareto_frontiers
    has_config,       \* experiment.optimization_config is not None
    objective_metrics,\* names of optimization_config.objective.metrics
    threshold_cfg,    \* optimization_config.objective_thresholds, by metric name
    status_quo,       \* name of experiment.status_quo, or None
    data,             \* the data argument: arm name -> metric -> [mean, sem]
    rel,              \* the rel argument: "None", "True" or "False"
    arm_names_given,  \* the arm_names argument is not None
    arm_names,        \* the caller's arm_names list
    pfr_list,         \* the returned list of ParetoFrontierResults
    opc,              \* "call", "done" or the error raised
    \* infer_reference_point_from_experiment
    is_moo,           \* experiment.is_moo_problem
    exp_thresholds,   \* experiment.optimization_config.objective_thresholds
    observations,     \* the training data: per observation, metric -> value
    objective_orders, \* obs_data[0].metric_names
    cfg_constraints,  \* mb_reference._optimization_config._outcome_constraints
    outcome_constraints, \* the local that saves them in the fallback
    frontier,         \* what get_pareto_frontier_and_configs last returned
    nadir_thresholds, \* nadir_objective_thresholds, the returned list
    ipc,              \* position in the function, or how it ended
    \* compute_posterior_pareto_frontier
    data_given,       \* the data argument is not None
    trial_index,      \* the trial_index argument: <<>> for None, else <<i>>
    has_batch_trial,  \* some trial of the experiment is a BatchTrial
    absolute_metrics, \* the absolute_metrics argument, a set of metric names
    constrained,      \* metric names of the outcome_constraints argument
    primary_metric,   \* primary_objective.name
    secondary_metric, \* secondary_objective.name
    has_status_quo,   \* experiment.status_quo is not None
    num_points,       \* the num_points argument
    fetched_from,     \* where line 408-412 fetched, or tried to fetch, data
    fit_data,         \* the data handed to Models.MOO
    status_quo_prediction, \* <<>> for None, else <<sq_mean, sq_cov>>
    posterior_result, \* the returned ParetoFrontierResults
    qpc               \* position in the function, or how it ended

paretoVars == <<Y, Ycols, reference_point, minimize, Y_pareto, ppc>>

relVars == <<means, sq_mean, sems, sq_sem, rel_out, rpc>>

obsVars == <<has_config, objective_metrics, threshold_cfg, status_quo, data, rel,
             arm_names_given, arm_names, pfr_list, opc>>

inferVars == <<is_moo, exp_thresholds, observations, objective_orders,
               cfg_constraints, outcome_constraints, frontier, nadir_thresholds, ipc>>

postVars == <<data_given, trial_index, has_batch_trial, absolute_metrics, constrained,
              primary_metric, secondary_metric, has_status_quo, num_points,
              fetched_from, fit_data, status_quo_prediction, posterior_result, qpc>>

vars == <<paretoVars, relVars, obsVars, inferVars, postVars>>

----------------------------------------------------------------------------
(* Bounds of the model. *)

\* longest outcome matrix (rows of Y)
MaxRows == 3

\* the values an entry of Y or of the reference point takes
Vals == {-1, 0, 1}

\* longest list of values handed to _relativize_values
MaxPoints == 2

\* metrics of an experiment, named 1..MaxMetrics
MaxMetrics == 3

\* most observations in the training data of the reference point inferencer
MaxObs == 3

\* trials of the experiment of the posterior frontier, indexed 0..MaxTrials-1
MaxTrials == 2

None == "None"

----------------------------------------------------------------------------
(* Exact arithmetic: a float is a rational <<n, d>> in lowest terms with      *)
(* d > 0; NaN is <<0, 0>>, and <<1, 0>> and <<-1, 0>> are the infinities.     *)

NaN == <<0, 0>>

IsNaN(x) == x = NaN

Abs(n) == IF n < 0 THEN -n ELSE n

RECURSIVE GCD(_, _)
GCD(a, b) == IF b = 0 THEN a ELSE GCD(b, a % b)

Rat(n, d) ==
    IF d = 0 THEN (IF n > 0 THEN <<1, 0>> ELSE IF n < 0 THEN <<-1, 0>> ELSE NaN)
    ELSE LET g == GCD(Abs(n), Abs(d))
             s == IF d < 0 THEN -1 ELSE 1
         IN  <<(s * n) \div g, (s * d) \div g>>

Num(n) == <<n, 1>>

RAdd(x, y) == Rat(x[1] * y[2] + y[1] * x[2], x[2] * y[2])
RSub(x, y) == Rat(x[1] * y[2] - y[1] * x[2], x[2] * y[2])
RMul(x, y) == Rat(x[1] * y[1], x[2] * y[2])
RDiv(x, y) == Rat(x[1] * y[2], x[2] * y[1])
RAbs(x) == <<Abs(x[1]), x[2]>>

----------------------------------------------------------------------------
(* _extract_observed_pareto_2d *)

\* minimize = (minimize, minimize) when it is a bool
BroadcastMinimize(mn) == IF Len(mn) = 1 THEN <<mn[1], mn[1]>> ELSE mn

\* (-1) ** minimize[i]
SignOf(b) == IF b THEN -1 ELSE 1

\* the comparison that dimension i of a row must pass against the reference point
PassesRefMut(row, ref, mn, i) ==
    IF mn[i] THEN row[i] <= ref[i] ELSE row[i] >= ref[i]

PassesRef(row, ref, mn, i) ==
    IF mn[i] THEN row[i] < ref[i] ELSE row[i] > ref[i]

\* the loop over i in range(2) that filters Y_copy on the reference point
FilterRef(Yc, ref, mn) ==
    LET pass1(row) == PassesRef(row, ref, mn, 1)
        pass2(row) == PassesRef(row, ref, mn, 2)
    IN  SelectSeq(SelectSeq(Yc, pass1), pass2)

\* Y_copy[:, i] *= (-1) ** minimize[i], for i in range(2)
FlipSign(Yc, mn) ==
    [k \in DOMAIN Yc |-> <<SignOf(mn[1]) * Yc[k][1], SignOf(mn[2]) * Yc[k][2]>>]

\* botorch's test under maximization: a is at least b everywhere, more somewhere
DominatesMut(a, b) == a[1] > b[1] /\ a[2] > b[2]

Dominates(a, b) ==
    /\ a[1] >= b[1] /\ a[2] >= b[2]
    /\ (a[1] > b[1] \/ a[2] > b[2])

\* botorch.utils.multi_objective.is_non_dominated(Y) with its defaults
\* (maximize, deduplicate=True): the mask of the rows no row dominates, anded
\* with the mask of the first occurrence of each distinct row.
IsNonDominated(Yc) ==
    [k \in DOMAIN Yc |->
        /\ ~ \E j \in DOMAIN Yc : Dominates(Yc[j], Yc[k])
        /\ ~ \E j \in 1..(k - 1) : Yc[j] = Yc[k]]

\* Y_copy[mask]
RECURSIVE MaskSelect(_, _)
MaskSelect(Yc, mask) ==
    IF Yc = <<>> THEN <<>>
    ELSE LET n == Len(Yc)
             front == MaskSelect(SubSeq(Yc, 1, n - 1), [k \in 1..(n - 1) |-> mask[k]])
         IN  IF mask[n] THEN Append(front, Yc[n]) ELSE front

\* insertion of a row into a matrix sorted on column 0, descending
RECURSIVE InsertDesc(_, _)
InsertDesc(row, sorted) ==
    IF sorted = <<>> THEN <<row>>
    ELSE IF Head(sorted)[1] >= row[1]
         THEN <<Head(sorted)>> \o InsertDesc(row, Tail(sorted))
         ELSE <<row>> \o sorted

RECURSIVE ReverseRows(_)
ReverseRows(Yc) ==
    IF Yc = <<>> THEN <<>> ELSE Append(ReverseRows(Tail(Yc)), Head(Yc))

RECURSIVE SortDescPlain(_)
SortDescPlain(Yc) ==
    IF Yc = <<>> THEN <<>>
    ELSE InsertDesc(Yc[Len(Yc)], SortDescPlain(SubSeq(Yc, 1, Len(Yc) - 1)))

\* argsort without descending=True
SortDescMut(Yc) == ReverseRows(SortDescPlain(Yc))

\* Y_pareto[torch.argsort(input=Y_pareto[:, 0], descending=True)]
RECURSIVE SortDesc(_)
SortDesc(Yc) ==
    IF Yc = <<>> THEN <<>>
    ELSE InsertDesc(Yc[Len(Yc)], SortDesc(SubSeq(Yc, 1, Len(Yc) - 1)))

\* the whole function, for a 2-column Y
ExtractObservedPareto2d(Yin, ref, mnIn) ==
    LET mn == BroadcastMinimize(mnIn)
        filtered == IF Len(ref) > 0 THEN FilterRef(Yin, ref, mn) ELSE Yin
        flipped == FlipSign(filtered, mn)
        pareto == MaskSelect(flipped, IsNonDominated(flipped))
    IN  FlipSign(SortDesc(pareto), mn)

Rows(c) == IF c = 2 THEN Vals \X Vals ELSE {<<v>> : v \in Vals}

Matrices(c) == UNION {[1..n -> Rows(c)] : n \in 0..MaxRows}

MinimizeArgs == {<<b>> : b \in BOOLEAN} \cup (BOOLEAN \X BOOLEAN)

ParetoIdle ==
    /\ Ycols = 2
    /\ Y = <<>>
    /\ reference_point = <<>>
    /\ minimize = <<TRUE>>
    /\ Y_pareto = <<>>
    /\ ppc = "idle"

ParetoInit ==
    /\ Ycols \in {1, 2}
    /\ Y \in Matrices(Ycols)
    /\ reference_point \in {<<>>} \cup (Vals \X Vals)
    /\ minimize \in MinimizeArgs
    /\ Y_pareto = <<>>
    /\ ppc = "call"

\* Y.shape[1] != 2: raise NotImplementedError
ExtractRaise ==
    /\ ppc = "call"
    /\ Ycols # 2
    /\ ppc' = "NotImplementedError"
    /\ UNCHANGED <<Y, Ycols, reference_point, minimize, Y_pareto>>
    /\ UNCHANGED <<relVars, obsVars, inferVars, postVars>>

ExtractReturn ==
    /\ ppc = "call"
    /\ Ycols = 2
    /\ Y_pareto' = ExtractObservedPareto2d(Y, reference_point, minimize)
    /\ ppc' = "done"
    /\ UNCHANGED <<Y, Ycols, reference_point, minimize>>
    /\ UNCHANGED <<relVars, obsVars, inferVars, postVars>>

ParetoNext == ExtractRaise \/ ExtractReturn

----------------------------------------------------------------------------
(* _relativize_values *)

\* (mu / sq_mean - 1) * 100
PlainRelative(mu, sqm) == RMul(RSub(RDiv(mu, sqm), Num(1)), Num(100))

\* ax.utils.stats.statstools.relativize(means_t, sems_t, mean_c, sem_c,
\* as_percent=True), the delta method with its default bias correction, on one
\* point; standard errors go in and come out squared.
RelativizeMean(m_t, s_t, mean_c, sem_c) ==
    LET abs_c == RAbs(mean_c)
        r_hat == RSub(RDiv(RSub(m_t, mean_c), abs_c),
                      RDiv(RMul(m_t, sem_c), RMul(abs_c, RMul(abs_c, abs_c))))
    IN  IF m_t = mean_c /\ s_t = sem_c THEN Num(0) ELSE RMul(r_hat, Num(100))

RelativizeSem(m_t, s_t, mean_c, sem_c) ==
    LET c == RDiv(m_t, mean_c)
        var == RDiv(RAdd(s_t, RMul(RMul(c, c), sem_c)), RMul(mean_c, mean_c))
    IN  RMul(var, Num(10000))

relativize(means_t, sems_t, mean_c, sem_c) ==
    << [k \in DOMAIN means_t |-> RelativizeMean(means_t[k], sems_t[k], mean_c, sem_c)],
       [k \in DOMAIN means_t |-> RelativizeSem(means_t[k], sems_t[k], mean_c, sem_c)] >>

\* np.isnan(sq_sem) or np.isnan(sems).any()
AnySemMissing(sm, sqs) == IsNaN(sqs) \/ \E k \in DOMAIN sm : IsNaN(sm[k])

\* the branch that just relativizes the means: sems is returned as it came in
RelativizeMeansOnly(mu, sqm, sm) ==
    << [k \in DOMAIN mu |-> PlainRelative(mu[k], sqm)], sm >>

\* the delta-method branch: the routine's results are bound to means_arr and
\* sems_arr, and the lists returned are built from means and sems
RelativizeDelta(mu, sqm, sm, sqs) ==
    LET arrs == relativize(mu, sm, sqm, sqs)
        means_arr == arrs[1]
        sems_arr == arrs[2]
    IN  << mu, sm >>

_relativize_values(mu, sqm, sm, sqs) ==
    IF AnySemMissing(sm, sqs)
    THEN RelativizeMeansOnly(mu, sqm, sm)
    ELSE RelativizeDelta(mu, sqm, sm, sqs)

\* the inputs of the model: means, squared sems and baselines
MeanVals == {Num(110), Num(90), Num(100)}
SemVals == {NaN, Num(9), Num(4)}
SqMeanVals == {Num(100), Num(50), Num(-100)}
SqSemVals == {NaN, Num(4)}

RelIdle ==
    /\ means = <<>>
    /\ sq_mean = Num(1)
    /\ sems = <<>>
    /\ sq_sem = NaN
    /\ rel_out = <<>>
    /\ rpc = "idle"

RelInit ==
    /\ \E n \in 0..MaxPoints :
        /\ means \in [1..n -> MeanVals]
        /\ sems \in [1..n -> SemVals]
    /\ sq_mean \in SqMeanVals
    /\ sq_sem \in SqSemVals
    /\ rel_out = <<>>
    /\ rpc = "call"

\* the call when a sem is missing
RelativizeValuesPlain ==
    /\ rpc = "call"
    /\ AnySemMissing(sems, sq_sem)
    /\ rel_out' = _relativize_values(means, sq_mean, sems, sq_sem)
    /\ rpc' = "done"
    /\ UNCHANGED <<means, sq_mean, sems, sq_sem>>
    /\ UNCHANGED <<paretoVars, obsVars, inferVars, postVars>>

\* the call when every sem is present
RelativizeValuesDelta ==
    /\ rpc = "call"
    /\ ~ AnySemMissing(sems, sq_sem)
    /\ rel_out' = _relativize_values(means, sq_mean, sems, sq_sem)
    /\ rpc' = "done"
    /\ UNCHANGED <<means, sq_mean, sems, sq_sem>>
    /\ UNCHANGED <<paretoVars, obsVars, inferVars, postVars>>

RelNext == RelativizeValuesPlain \/ RelativizeValuesDelta

----------------------------------------------------------------------------
(* get_observed_pareto_frontiers *)

Metrics == 1..MaxMetrics

Arms == {"a0", "a1", "a2"}

\* the order in which arms stand in the data
ArmOrder == <<"a0", "a1", "a2">>

\* obs.features.parameters of an arm
ParamsOf(arm) == [x |-> arm]

RangeOf(seq) == {seq[k] : k \in DOMAIN seq}

\* sorted(objective_metric_names)
RECURSIVE SortedList(_)
SortedList(S) ==
    IF S = {} THEN <<>>
    ELSE LET lo == CHOOSE x \in S : \A y \in S : x <= y
         IN  <<lo>> \o SortedList(S \ {lo})

\* lines 203-209: the status quo's name is appended to the caller's list
ArmNamesAfterAppend(given, names, sq) ==
    IF given /\ sq # None /\ sq \notin RangeOf(names)
    THEN Append(names, sq)
    ELSE names

\* line 210: Data(data.df[data.df["arm_name"].isin(arm_names)])
FilterData(d, given, names) ==
    IF given THEN [a \in (DOMAIN d) \cap RangeOf(names) |-> d[a]] ELSE d

\* _extract_sq_data: the status quo's mean of each metric, {} without status quo
ExtractSqMeans(sq, d) ==
    IF sq # None /\ sq \in DOMAIN d
    THEN [m \in Metrics |-> d[sq][m].mean]
    ELSE [m \in {} |-> NaN]

ExtractSqSems(sq, d) ==
    IF sq # None /\ sq \in DOMAIN d
    THEN [m \in Metrics |-> d[sq][m].sem]
    ELSE [m \in {} |-> NaN]

\* lines 219-226: per objective metric, the means and sems of the observations
CollectMeans(obs, d, names) ==
    [m \in names |-> [k \in DOMAIN obs |-> d[obs[k]][m].mean]]

CollectSems(obs, d, names) ==
    [m \in names |-> [k \in DOMAIN obs |-> d[obs[k]][m].sem]]

\* lines 229-234
RelObjth(cfg) == [m \in DOMAIN cfg |-> cfg[m].relative]

\* line 240: len(rel_objth) != len(pfr_means), reached when rel is None
ThresholdCountDiffers(relArg, cfg, names) ==
    /\ relArg = None
    /\ Cardinality(DOMAIN cfg) # Cardinality(names)

MetricIsRelMut(relArg, cfg, names) ==
    IF relArg = None THEN [m \in names |-> FALSE] ELSE [m \in names |-> relArg = "True"]

\* lines 237-247
MetricIsRel(relArg, cfg, names) ==
    IF relArg \in {"True", "False"}
    THEN [m \in names |-> relArg = "True"]
    ELSE RelObjth(cfg)

DerelativizeMut(bound, sqm) == RMul(RDiv(RAdd(Num(1), bound), Num(100)), sqm)

\* lines 272-274: (1 + bound / 100.0) * sq_means[name]
Derelativize(bound, sqm) == RMul(RAdd(Num(1), RDiv(bound, Num(100))), sqm)

\* lines 264-269: the threshold through _relativize_values, without sems
RelativizeThreshold(bound, sqm) ==
    _relativize_values(<<bound>>, sqm, <<NaN>>, NaN)[1][1]

\* the metrics whose branch of the loop of lines 253-274 reads sq_means[name]
ReadsSqMean(m, isRel, cfg) ==
    \/ isRel[m]
    \/ (~ isRel[m] /\ m \in DOMAIN cfg /\ cfg[m].relative)

\* lines 253-260: means and sems of a metric after the loop
LoopValues(m, isRel, mu, sm, sqMeans, sqSems) ==
    IF isRel[m]
    THEN _relativize_values(mu[m], sqMeans[m], sm[m], sqSems[m])
    ELSE <<mu[m], sm[m]>>

\* lines 261-274: the bound of a metric's threshold after the loop
LoopThreshold(m, isRel, cfg, sqMeans) ==
    IF isRel[m]
    THEN IF ~ cfg[m].relative
         THEN RelativizeThreshold(cfg[m].bound, sqMeans[m])
         ELSE cfg[m].bound
    ELSE IF cfg[m].relative
         THEN Derelativize(cfg[m].bound, sqMeans[m])
         ELSE cfg[m].bound

\* line 276
AbsoluteMetrics(isRel) == {m \in DOMAIN isRel : ~ isRel[m]}

CombinationsMut(lst) ==
    LET n == Len(lst)
        idx == {p \in (1..n) \X (1..n) : p[1] # p[2]}
        RECURSIVE List(_)
        List(S) ==
            IF S = {} THEN <<>>
            ELSE LET p == CHOOSE q \in S : \A r \in S :
                              q[1] < r[1] \/ (q[1] = r[1] /\ q[2] <= r[2])
                 IN  <<<<lst[p[1]], lst[p[2]]>>>> \o List(S \ {p})
    IN  List(idx)

\* itertools.combinations(lst, 2): the pairs of positions i < j, in
\* lexicographic order
Combinations(lst) ==
    LET n == Len(lst)
        RECURSIVE From(_, _)
        From(i, j) ==
            IF i >= n THEN <<>>
            ELSE IF j > n THEN From(i + 1, i + 2)
            ELSE <<<<lst[i], lst[j]>>>> \o From(i, j + 1)
    IN  From(1, 2)

\* lines 276-295: one ParetoFrontierResults per pair of objective metrics
BuildResults(obs, names, pfrMeans, pfrSems, isRel, thresholds) ==
    LET pairs == Combinations(SortedList(names))
    IN  [k \in DOMAIN pairs |->
            [param_dicts |-> [i \in DOMAIN obs |-> ParamsOf(obs[i])],
             means |-> pfrMeans,
             sems |-> pfrSems,
             primary_metric |-> pairs[k][1],
             secondary_metric |-> pairs[k][2],
             absolute_metrics |-> AbsoluteMetrics(isRel),
             objective_thresholds |-> thresholds,
             arm_names |-> obs]]

\* observed_pareto_frontier(modelbridge=mb): the observations the adapter puts on
\* the joint frontier, some of the arms of the data handed to it, in data order
FrontierChoices(d) ==
    {SelectSeq(ArmOrder, LAMBDA a : a \in S) : S \in SUBSET (DOMAIN d)}

\* the data of the model: every arm has a row per metric; the baseline of a
\* metric is 100 or 50, arm a1 lies 10% above it and arm a2 10% below
BaseMean(m) == IF m % 2 = 1 THEN 100 ELSE 50

ArmFactor(arm) == IF arm = "a0" THEN 100 ELSE IF arm = "a1" THEN 110 ELSE 90

MeanOf(arm, m) == Rat(BaseMean(m) * ArmFactor(arm), 100)

\* which sems are missing: none, the baseline's, or arm a1's
SemScenarios == {"all", "no_sq_sem", "no_arm_sem"}

SemOf(arm, sc) ==
    IF arm = "a0" THEN (IF sc = "no_sq_sem" THEN NaN ELSE Num(4))
    ELSE IF arm = "a1" THEN (IF sc = "no_arm_sem" THEN NaN ELSE Num(9))
    ELSE Num(4)

DataOf(arms, sc) ==
    [a \in arms |-> [m \in Metrics |-> [mean |-> MeanOf(a, m), sem |-> SemOf(a, sc)]]]

\* the thresholds an objective may carry
ThresholdVals ==
    {[relative |-> TRUE, bound |-> Num(10)],
     [relative |-> TRUE, bound |-> Num(-20)],
     [relative |-> FALSE, bound |-> Num(120)]}

\* thresholds are on objectives, at most one per objective
\* (MultiObjectiveOptimizationConfig validates both)
ThresholdCfgs(objs) == UNION {[S -> ThresholdVals] : S \in SUBSET objs}

ArmNamesArgs == {<<"a1">>, <<"a0", "a1">>, <<"a1", "a2">>}

ObsIdle ==
    /\ has_config = FALSE
    /\ objective_metrics = {}
    /\ threshold_cfg = <<>>
    /\ status_quo = None
    /\ data = <<>>
    /\ rel = None
    /\ arm_names_given = FALSE
    /\ arm_names = <<>>
    /\ pfr_list = <<>>
    /\ opc = "idle"

ObsInit ==
    /\ has_config \in BOOLEAN
    /\ IF has_config
       THEN /\ objective_metrics \in {S \in SUBSET Metrics : Cardinality(S) >= 2}
            /\ threshold_cfg \in ThresholdCfgs(objective_metrics)
       ELSE /\ objective_metrics = {}
            /\ threshold_cfg = <<>>
    /\ status_quo \in {None, "a0"}
    /\ \E sc \in SemScenarios : \E arms \in {Arms, Arms \ {"a0"}} :
           data = DataOf(arms, sc)
    /\ rel \in {None, "True", "False"}
    /\ arm_names_given \in BOOLEAN
    /\ IF arm_names_given THEN arm_names \in ArmNamesArgs ELSE arm_names = <<>>
    /\ pfr_list = <<>>
    /\ opc = "call"

\* what the call has computed when it reaches the loop of line 253
UsedArmNames == ArmNamesAfterAppend(arm_names_given, arm_names, status_quo)
UsedData == FilterData(data, arm_names_given, UsedArmNames)
UsedIsRel == MetricIsRel(rel, threshold_cfg, objective_metrics)
UsedSqMeans == ExtractSqMeans(status_quo, UsedData)
UsedSqSems == ExtractSqSems(status_quo, UsedData)

\* line 201-202: no optimization config
ObsRaiseValueError ==
    /\ opc = "call"
    /\ ~ has_config
    /\ opc' = "ValueError"
    /\ UNCHANGED <<has_config, objective_metrics, threshold_cfg, status_quo, data,
                   rel, arm_names_given, arm_names, pfr_list>>
    /\ UNCHANGED <<paretoVars, relVars, inferVars, postVars>>

\* lines 203-245: rel is None and an objective has no threshold
ObsRaiseUserInputError ==
    /\ opc = "call"
    /\ has_config
    /\ ThresholdCountDiffers(rel, threshold_cfg, objective_metrics)
    /\ arm_names' = UsedArmNames
    /\ opc' = "UserInputError"
    /\ UNCHANGED <<has_config, objective_metrics, threshold_cfg, status_quo, data,
                   rel, arm_names_given, pfr_list>>
    /\ UNCHANGED <<paretoVars, relVars, inferVars, postVars>>

\* lines 203-274: the loop reads sq_means[name] and the status quo has no data
ObsRaiseKeyError ==
    /\ opc = "call"
    /\ has_config
    /\ ~ ThresholdCountDiffers(rel, threshold_cfg, objective_metrics)
    /\ \E m \in objective_metrics :
           /\ ReadsSqMean(m, UsedIsRel, threshold_cfg)
           /\ m \notin DOMAIN UsedSqMeans
    /\ arm_names' = UsedArmNames
    /\ opc' = "KeyError"
    /\ UNCHANGED <<has_config, objective_metrics, threshold_cfg, status_quo, data,
                   rel, arm_names_given, pfr_list>>
    /\ UNCHANGED <<paretoVars, relVars, inferVars, postVars>>

\* lines 199-295: the call returns its list of results
ObsReturn ==
    /\ opc = "call"
    /\ has_config
    /\ ~ ThresholdCountDiffers(rel, threshold_cfg, objective_metrics)
    /\ \A m \in objective_metrics :
           ReadsSqMean(m, UsedIsRel, threshold_cfg) => m \in DOMAIN UsedSqMeans
    /\ \E obs \in FrontierChoices(UsedData) :
        LET mu == CollectMeans(obs, UsedData, objective_metrics)
            sm == CollectSems(obs, UsedData, objective_metrics)
            vals == [m \in objective_metrics |->
                        LoopValues(m, UsedIsRel, mu, sm, UsedSqMeans, UsedSqSems)]
            thresholds == [m \in DOMAIN threshold_cfg |->
                              LoopThreshold(m, UsedIsRel, threshold_cfg, UsedSqMeans)]
        IN  pfr_list' = BuildResults(obs, objective_metrics,
                                     [m \in objective_metrics |-> vals[m][1]],
                                     [m \in objective_metrics |-> vals[m][2]],
                                     UsedIsRel, thresholds)
    /\ arm_names' = UsedArmNames
    /\ opc' = "done"
    /\ UNCHANGED <<has_config, objective_metrics, threshold_cfg, status_quo, data,
                   rel, arm_names_given>>
    /\ UNCHANGED <<paretoVars, relVars, inferVars, postVars>>

ObsNext ==
    \/ ObsRaiseValueError
    \/ ObsRaiseUserInputError
    \/ ObsRaiseKeyError
    \/ ObsReturn

----------------------------------------------------------------------------
(* infer_reference_point_from_experiment *)

\* the metrics of the experiments of this entry point
InferMetrics == {1, 2, 3}

\* the sequences that list every element of S once
Perms(S) ==
    {p \in [1..Cardinality(S) -> S] : \A i, j \in DOMAIN p : (i # j) => p[i] # p[j]}

\* list.index(x)
IndexOf(seq, x) == CHOOSE i \in DOMAIN seq : seq[i] = x /\ \A j \in 1..(i - 1) : seq[j] # x

\* x < y and x <= y on finite floats; false when either is NaN
RLt(x, y) == ~ IsNaN(x) /\ ~ IsNaN(y) /\ x[1] * y[2] < y[1] * x[2]
RLe(x, y) == ~ IsNaN(x) /\ ~ IsNaN(y) /\ x[1] * y[2] <= y[1] * x[2]

ThresholdMetrics(ths) == {ths[k].metric : k \in DOMAIN ths}

\* the threshold of metric m
ThresholdOf(ths, m) == ths[CHOOSE k \in DOMAIN ths : ths[k].metric = m]

\* lines 619-634: -1 for an objective with a LEQ threshold, 1 for the other
\* objectives, 0 for the metrics that are no objective
Multiplier(orders, ths) ==
    [i \in DOMAIN orders |->
        IF orders[i] \in ThresholdMetrics(ths)
        THEN (IF ThresholdOf(ths, orders[i]).op = "LEQ" THEN -1 ELSE 1)
        ELSE 0]

\* the weight get_pareto_frontier_and_configs gives a metric: -1 to minimize,
\* 1 to maximize, 0 for a metric that is no objective
ObjectiveWeight(ths, m) ==
    IF m \in ThresholdMetrics(ths)
    THEN (IF ThresholdOf(ths, m).op = "LEQ" THEN -1 ELSE 1)
    ELSE 0

\* the observation is at least as good as the (infinite) dummy thresholds: its
\* objective values are numbers
BeatsDummyThresholds(ob, ths) ==
    \A m \in ThresholdMetrics(ths) : ~ IsNaN(ob[m])

\* the observation satisfies every outcome constraint (metric >= bound)
Feasible(ob, constraints) ==
    \A k \in DOMAIN constraints :
        RLe(constraints[k].bound, ob[constraints[k].metric])

\* a dominates b in the weighted objectives
DominatesWeighted(a, b, ths) ==
    LET objs == ThresholdMetrics(ths)
        w(ob, m) == RMul(Num(ObjectiveWeight(ths, m)), ob[m])
    IN  /\ \A m \in objs : RLe(w(b, m), w(a, m))
        /\ \E m \in objs : RLt(w(b, m), w(a, m))

\* get_pareto_frontier_and_configs(..., objective_thresholds=dummy_rp,
\* use_model_predictions=False, transform_outcomes_and_configs=False): the
\* observations that pass the thresholds and the constraints and that no other
\* such observation dominates (the first of equals), with their outcomes f and
\* the objective weights obj_w, both in the metric order `names`.
ParetoFrontierAndConfigs(obsData, ths, constraints, names) ==
    LET ok(k) == BeatsDummyThresholds(obsData[k], ths) /\ Feasible(obsData[k], constraints)
        same(j, k) == \A m \in ThresholdMetrics(ths) : obsData[j][m] = obsData[k][m]
        keep(k) ==
            /\ ok(k)
            /\ ~ \E j \in DOMAIN obsData :
                   ok(j) /\ DominatesWeighted(obsData[j], obsData[k], ths)
            /\ ~ \E j \in 1..(k - 1) : ok(j) /\ same(j, k)
        idx == SelectSeq([k \in DOMAIN obsData |-> k], keep)
    IN  [frontier_observations |-> [i \in DOMAIN idx |-> obsData[idx[i]]],
         metric_names |-> names,
         f |-> [i \in DOMAIN idx |-> [j \in DOMAIN names |-> obsData[idx[i]][names[j]]]],
         obj_w |-> [j \in DOMAIN names |-> ObjectiveWeight(ths, names[j])]]

NoFrontier == [frontier_observations |-> <<>>, metric_names |-> <<>>, f |-> <<>>,
               obj_w |-> <<>>]

\* lines 675-680: order, f[:, order] and obj_w[order]
ColumnOrder(orders, names) == [j \in DOMAIN names |-> IndexOf(orders, names[j])]

TakeColumns(F, cols) == [i \in DOMAIN F |-> [t \in DOMAIN cols |-> F[i][cols[t]]]]

TakeEntries(v, cols) == [t \in DOMAIN cols |-> v[cols[t]]]

\* obj_w.nonzero().view(-1)
Nonzero(v) == SelectSeq([j \in DOMAIN v |-> j], LAMBDA j : v[j] # 0)

\* multiplier_nonzero * f and multiplier_nonzero * rp_raw
ScaleRow(mult, row) == [t \in DOMAIN row |-> RMul(Num(mult[t]), row[t])]

RMin(S) == CHOOSE x \in S : \A y \in S : RLe(x, y)
RMax(S) == CHOOSE x \in S : \A y \in S : RLe(y, x)

\* botorch's infer_reference_point(pareto_Y) with its default scale 0.1: per
\* column, the nadir (the minimum) lowered by a tenth of the column's range, or
\* by a tenth of the nadir's size when the column has one value
InferReferencePoint(F) ==
    [t \in DOMAIN F[1] |->
        LET col == {F[i][t] : i \in DOMAIN F}
            lo == RMin(col)
            hi == RMax(col)
            range == IF lo = hi THEN RAbs(lo) ELSE RSub(hi, lo)
        IN  RSub(lo, RDiv(range, Num(10)))]

\* lines 673-711: from the frontier to the returned thresholds
NadirObjectiveThresholds(fr, orders, ths) ==
    LET multiplier == Multiplier(orders, ths)
        order == ColumnOrder(orders, fr.metric_names)
        f_ordered == TakeColumns(fr.f, order)
        obj_w == TakeEntries(fr.obj_w, order)
        nz == Nonzero(obj_w)
        f_objectives == TakeColumns(f_ordered, nz)
        multiplier_nonzero == TakeEntries(multiplier, nz)
        f_transformed == [i \in DOMAIN f_objectives |->
                             ScaleRow(multiplier_nonzero, f_objectives[i])]
        rp_raw == InferReferencePoint(f_transformed)
        rp == ScaleRow(multiplier_nonzero, rp_raw)
        objective_orders_reduced == SelectSeq(orders, LAMBDA x : x \in ThresholdMetrics(ths))
    IN  [k \in DOMAIN ths |->
            [ths[k] EXCEPT !.bound = rp[IndexOf(objective_orders_reduced, ths[k].metric)]]]

\* the training data of the model: observation k has these values of metrics
\* 1, 2, 3; the first three are the frontier (1,4), (2,3), (3,1) in metrics 1, 2
ObsTable == << <<1, 4, 2>>, <<2, 3, 1>>, <<3, 1, 3>>, <<2, 3, 1>> >>

TableRow(k) == ObsTable[((k - 1) % Len(ObsTable)) + 1]

\* n observations, with numbers for values or with NaN for every value
TrainingData(n, D, nan) ==
    [k \in 1..n |-> [m \in D |-> IF nan THEN NaN ELSE Num(TableRow(k)[m])]]

\* the thresholds of a multi-objective experiment: two or more objectives, each
\* with one threshold, LEQ on a minimized one and GEQ on a maximized one
ExpThresholds ==
    UNION {
        {[k \in DOMAIN p |-> [metric |-> p[k], op |-> ops[k], bound |-> Num(0)]] :
            p \in Perms(S), ops \in [1..Cardinality(S) -> {"LEQ", "GEQ"}]} :
        S \in {T \in SUBSET InferMetrics : Cardinality(T) >= 2}}

\* the outcome constraints: none, or one on a metric that is no objective,
\* which some observations meet (>= 2) or none does (>= 9)
ConstraintLists(D, ths) ==
    {<<>>} \cup
    {<<[metric |-> m, bound |-> Num(b)]>> :
        m \in D \ ThresholdMetrics(ths), b \in {2, 9}}

InferIdle ==
    /\ is_moo = FALSE
    /\ exp_thresholds = <<>>
    /\ observations = <<>>
    /\ objective_orders = <<>>
    /\ cfg_constraints = <<>>
    /\ outcome_constraints = <<>>
    /\ frontier = NoFrontier
    /\ nadir_thresholds = <<>>
    /\ ipc = "idle"

InferInit ==
    /\ is_moo \in BOOLEAN
    /\ IF is_moo
       THEN /\ exp_thresholds \in ExpThresholds
            /\ \E D \in {InferMetrics} \cup {InferMetrics \ {m} : m \in InferMetrics} :
                /\ objective_orders \in Perms(D)
                /\ \E n \in 1..MaxObs : \E nan \in BOOLEAN :
                       observations = TrainingData(n, D, nan)
                /\ cfg_constraints \in ConstraintLists(D, exp_thresholds)
       ELSE /\ exp_thresholds = <<>>
            /\ objective_orders = <<1, 2>>
            /\ observations = TrainingData(1, {1, 2}, FALSE)
            /\ cfg_constraints = <<>>
    /\ outcome_constraints = <<>>
    /\ frontier = NoFrontier
    /\ nadir_thresholds = <<>>
    /\ ipc = "call"

DataMetrics == {objective_orders[i] : i \in DOMAIN objective_orders}

\* lines 594-598
InferRaiseNotMoo ==
    /\ ipc = "call"
    /\ ~ is_moo
    /\ ipc' = "ValueError"
    /\ UNCHANGED <<is_moo, exp_thresholds, observations, objective_orders,
                   cfg_constraints, outcome_constraints, frontier, nadir_thresholds>>
    /\ UNCHANGED <<paretoVars, relVars, obsVars, postVars>>

\* lines 600-627: a threshold's metric is not in objective_orders
InferRaiseMissingMetric ==
    /\ ipc = "call"
    /\ is_moo
    /\ ~ (ThresholdMetrics(exp_thresholds) \subseteq DataMetrics)
    /\ ipc' = "ValueError"
    /\ UNCHANGED <<is_moo, exp_thresholds, observations, objective_orders,
                   cfg_constraints, outcome_constraints, frontier, nadir_thresholds>>
    /\ UNCHANGED <<paretoVars, relVars, obsVars, postVars>>

\* lines 600-644: up to the first frontier
InferFirstFrontier ==
    /\ ipc = "call"
    /\ is_moo
    /\ ThresholdMetrics(exp_thresholds) \subseteq DataMetrics
    /\ \E names \in Perms(DataMetrics) :
           frontier' = ParetoFrontierAndConfigs(observations, exp_thresholds,
                                                cfg_constraints, names)
    /\ ipc' = "frontier"
    /\ UNCHANGED <<is_moo, exp_thresholds, observations, objective_orders,
                   cfg_constraints, outcome_constraints, nadir_thresholds>>
    /\ UNCHANGED <<paretoVars, relVars, obsVars, postVars>>

\* lines 646-653: no frontier and no constraints
InferRaiseNoFrontier ==
    /\ ipc = "frontier"
    /\ Len(frontier.frontier_observations) = 0
    /\ Len(cfg_constraints) = 0
    /\ outcome_constraints' = cfg_constraints
    /\ ipc' = "RuntimeError"
    /\ UNCHANGED <<is_moo, exp_thresholds, observations, objective_orders,
                   cfg_constraints, frontier, nadir_thresholds>>
    /\ UNCHANGED <<paretoVars, relVars, obsVars, postVars>>

\* lines 646-661: the constraints are saved in the local and cleared
InferClearConstraints ==
    /\ ipc = "frontier"
    /\ Len(frontier.frontier_observations) = 0
    /\ Len(cfg_constraints) # 0
    /\ outcome_constraints' = cfg_constraints
    /\ cfg_constraints' = <<>>
    /\ ipc' = "cleared"
    /\ UNCHANGED <<is_moo, exp_thresholds, observations, objective_orders,
                   frontier, nadir_thresholds>>
    /\ UNCHANGED <<paretoVars, relVars, obsVars, postVars>>

\* lines 663-671: the unconstrained frontier returns; the constraints are restored
InferRecompute ==
    /\ ipc = "cleared"
    /\ \E names \in Perms(DataMetrics) :
           frontier' = ParetoFrontierAndConfigs(observations, exp_thresholds,
                                                cfg_constraints, names)
    /\ cfg_constraints' = outcome_constraints
    /\ ipc' = "recomputed"
    /\ UNCHANGED <<is_moo, exp_thresholds, observations, objective_orders,
                   outcome_constraints, nadir_thresholds>>
    /\ UNCHANGED <<paretoVars, relVars, obsVars, postVars>>

\* lines 663-670: the unconstrained recomputation raises; line 671 is not reached
InferRecomputeRaises ==
    /\ ipc = "cleared"
    /\ ipc' = "Exception"
    /\ UNCHANGED <<is_moo, exp_thresholds, observations, objective_orders,
                   cfg_constraints, outcome_constraints, frontier, nadir_thresholds>>
    /\ UNCHANGED <<paretoVars, relVars, obsVars, postVars>>

\* the function is at line 673
AtReorder ==
    \/ ipc = "recomputed"
    \/ (ipc = "frontier" /\ Len(frontier.frontier_observations) # 0)

\* lines 675-678: frontier_observations[0] of an empty list
InferRaiseIndexError ==
    /\ AtReorder
    /\ Len(frontier.frontier_observations) = 0
    /\ ipc' = "IndexError"
    /\ UNCHANGED <<is_moo, exp_thresholds, observations, objective_orders,
                   cfg_constraints, outcome_constraints, frontier, nadir_thresholds>>
    /\ UNCHANGED <<paretoVars, relVars, obsVars, postVars>>

\* lines 673-711: the thresholds are built and returned
InferReturn ==
    /\ AtReorder
    /\ Len(frontier.frontier_observations) # 0
    /\ nadir_thresholds' = NadirObjectiveThresholds(frontier, objective_orders,
                                                    exp_thresholds)
    /\ ipc' = "done"
    /\ UNCHANGED <<is_moo, exp_thresholds, observations, objective_orders,
                   cfg_constraints, outcome_constraints, frontier>>
    /\ UNCHANGED <<paretoVars, relVars, obsVars, postVars>>

InferNext ==
    \/ InferRaiseNotMoo
    \/ InferRaiseMissingMetric
    \/ InferFirstFrontier
    \/ InferRaiseNoFrontier
    \/ InferClearConstraints
    \/ InferRecompute
    \/ InferRecomputeRaises
    \/ InferRaiseIndexError
    \/ InferReturn

----------------------------------------------------------------------------
(* compute_posterior_pareto_frontier and _extract_pareto_frontier_results *)

\* experiment.metrics, which are also the outcomes the fitted model predicts
PostMetrics == {1, 2, 3}

\* a name that is no metric of the experiment
UnknownMetric == 4

\* keys of experiment.trials
Trials == 0 .. (MaxTrials - 1)

\* bool(trial_index): None and 0 are both falsy
Truthy(ti) == ti # <<>> /\ ti[1] # 0

\* a source of data: the argument, one trial, the whole experiment, or nothing
Source(kind, index) == [kind |-> kind, index |-> index]

\* the conditional expression of lines 408-412: which fetch_data is called
FetchTarget(ti) ==
    IF Truthy(ti) THEN Source("trial", ti[1]) ELSE Source("experiment", -1)

\* experiment.trials[trial_index] raises KeyError for an index that is no trial
LookupRaises(ti) == Truthy(ti) /\ ti[1] \notin Trials

\* _validate_outcome_constraints: some constraint is on an objective
ConstrainsObjective(cs, primary, secondary) ==
    \E k \in DOMAIN cs : cs[k] \in {primary, secondary}

\* the guard of lines 382-386
NeedsTrialOrData == trial_index = <<>> /\ ~data_given /\ has_batch_trial

\* the loop of lines 391-393 raises
UnknownAbsoluteMetric == \E metric \in absolute_metrics : metric \notin PostMetrics

\* model.predict on the generated points: the posterior mean of each metric
\* at each point, and the posterior variance cov[metric][metric]
PredictMeans(n) == [metric \in PostMetrics |-> [k \in 1..n |-> Num(100 + 10 * k + metric)]]

PredictVariances(n) == [metric \in PostMetrics |-> [k \in 1..n |-> Num(8 + metric)]]

\* model.predict on the status quo: its mean and variance per metric
PredictStatusQuo ==
    << [metric \in PostMetrics |-> <<Num(100)>>],
       [metric \in PostMetrics |-> <<Num(4)>>] >>

\* _extract_pareto_frontier_results: primary or secondary is relative
AnyObjectiveRelative(primary, secondary, absolute) ==
    primary \notin absolute \/ secondary \notin absolute

\* the loop of lines 521-529 over the predicted metrics
ExtractRelativized(mu, var, absolute, sq) ==
    [metric \in DOMAIN mu |->
        IF metric \notin absolute /\ metric \in DOMAIN sq[1]
        THEN relativize(mu[metric], var[metric], sq[1][metric][1], sq[2][metric][1])
        ELSE <<mu[metric], var[metric]>>]

\* means_out and sems_out of _extract_pareto_frontier_results
ExtractResults(mu, var, primary, secondary, absolute, sq) ==
    LET out == IF AnyObjectiveRelative(primary, secondary, absolute)
               THEN ExtractRelativized(mu, var, absolute, sq)
               ELSE [metric \in DOMAIN mu |-> <<mu[metric], var[metric]>>]
    IN  [means |-> [metric \in DOMAIN mu |-> out[metric][1]],
         sems |-> [metric \in DOMAIN mu |-> out[metric][2]],
         primary_metric |-> primary,
         secondary_metric |-> secondary,
         absolute_metrics |-> absolute]

NoResult == [means |-> <<>>, sems |-> <<>>, primary_metric |-> 0,
             secondary_metric |-> 0, absolute_metrics |-> {}]

PostIdle ==
    /\ data_given = FALSE
    /\ trial_index = <<>>
    /\ has_batch_trial = FALSE
    /\ absolute_metrics = {}
    /\ constrained = <<>>
    /\ primary_metric = 1
    /\ secondary_metric = 2
    /\ has_status_quo = FALSE
    /\ num_points = 1
    /\ fetched_from = Source("none", -1)
    /\ fit_data = Source("none", -1)
    /\ status_quo_prediction = <<>>
    /\ posterior_result = NoResult
    /\ qpc = "idle"

PostInit ==
    /\ data_given \in BOOLEAN
    /\ trial_index \in {<<>>} \cup {<<i>> : i \in 0..MaxTrials}
    /\ has_batch_trial \in BOOLEAN
    /\ absolute_metrics \in SUBSET (PostMetrics \cup {UnknownMetric})
    /\ constrained \in {<<>>} \cup {<<metric>> : metric \in PostMetrics}
    /\ primary_metric \in PostMetrics
    /\ secondary_metric \in PostMetrics \ {primary_metric}
    /\ has_status_quo \in BOOLEAN
    /\ num_points \in 1..MaxPoints
    /\ fetched_from = Source("none", -1)
    /\ fit_data = Source("none", -1)
    /\ status_quo_prediction = <<>>
    /\ posterior_result = NoResult
    /\ qpc = "call"

\* lines 382-389
PostRaiseUnsupported ==
    /\ qpc = "call"
    /\ NeedsTrialOrData
    /\ qpc' = "UnsupportedError"
    /\ UNCHANGED <<data_given, trial_index, has_batch_trial, absolute_metrics,
                   constrained, primary_metric, secondary_metric, has_status_quo,
                   num_points, fetched_from, fit_data, status_quo_prediction,
                   posterior_result>>
    /\ UNCHANGED <<paretoVars, relVars, obsVars, inferVars>>

\* lines 390-403: an absolute metric the experiment does not have, or a
\* constraint on an objective
PostRaiseValueError ==
    /\ qpc = "call"
    /\ ~NeedsTrialOrData
    /\ \/ UnknownAbsoluteMetric
       \/ ConstrainsObjective(constrained, primary_metric, secondary_metric)
    /\ qpc' = "ValueError"
    /\ UNCHANGED <<data_given, trial_index, has_batch_trial, absolute_metrics,
                   constrained, primary_metric, secondary_metric, has_status_quo,
                   num_points, fetched_from, fit_data, status_quo_prediction,
                   posterior_result>>
    /\ UNCHANGED <<paretoVars, relVars, obsVars, inferVars>>

\* lines 405-435: the data argument when given; else the fetch, which may raise
\* (then it is logged and data stays None); then the model is fitted
PostResolveData ==
    /\ qpc = "call"
    /\ ~NeedsTrialOrData
    /\ ~UnknownAbsoluteMetric
    /\ ~ConstrainsObjective(constrained, primary_metric, secondary_metric)
    /\ IF data_given
       THEN /\ fetched_from' = Source("none", -1)
            /\ fit_data' = Source("argument", -1)
       ELSE /\ fetched_from' = FetchTarget(trial_index)
            /\ \E raises \in BOOLEAN :
                   /\ LookupRaises(trial_index) => raises
                   /\ fit_data' = IF raises THEN Source("none", -1)
                                  ELSE FetchTarget(trial_index)
    /\ qpc' = "fitted"
    /\ UNCHANGED <<data_given, trial_index, has_batch_trial, absolute_metrics,
                   constrained, primary_metric, secondary_metric, has_status_quo,
                   num_points, status_quo_prediction, posterior_result>>
    /\ UNCHANGED <<paretoVars, relVars, obsVars, inferVars>>

\* lines 437-454: the prediction of the status quo, None when there is no
\* status quo or when model.predict raises ValueError
PostPredictStatusQuo ==
    /\ qpc = "fitted"
    /\ IF has_status_quo
       THEN \E raises \in BOOLEAN :
                status_quo_prediction' = IF raises THEN <<>> ELSE PredictStatusQuo
       ELSE status_quo_prediction' = <<>>
    /\ qpc' = "predicted"
    /\ UNCHANGED <<data_given, trial_index, has_batch_trial, absolute_metrics,
                   constrained, primary_metric, secondary_metric, has_status_quo,
                   num_points, fetched_from, fit_data, posterior_result>>
    /\ UNCHANGED <<paretoVars, relVars, obsVars, inferVars>>

\* lines 456-494 and 508-518: the points are generated and predicted, and the
\* extraction raises for a relative objective without status quo prediction
PostRaiseAxError ==
    /\ qpc = "predicted"
    /\ AnyObjectiveRelative(primary_metric, secondary_metric, absolute_metrics)
    /\ status_quo_prediction = <<>>
    /\ qpc' = "AxError"
    /\ UNCHANGED <<data_given, trial_index, has_batch_trial, absolute_metrics,
                   constrained, primary_metric, secondary_metric, has_status_quo,
                   num_points, fetched_from, fit_data, status_quo_prediction,
                   posterior_result>>
    /\ UNCHANGED <<paretoVars, relVars, obsVars, inferVars>>

\* lines 456-494 and 508-540: the points are generated and predicted, and the
\* results extracted
PostReturn ==
    /\ qpc = "predicted"
    /\ ~(AnyObjectiveRelative(primary_metric, secondary_metric, absolute_metrics)
            /\ status_quo_prediction = <<>>)
    /\ posterior_result' = ExtractResults(PredictMeans(num_points),
                                          PredictVariances(num_points),
                                          primary_metric, secondary_metric,
                                          absolute_metrics, status_quo_prediction)
    /\ qpc' = "done"
    /\ UNCHANGED <<data_given, trial_index, has_batch_trial, absolute_metrics,
                   constrained, primary_metric, secondary_metric, has_status_quo,
                   num_points, fetched_from, fit_data, status_quo_prediction>>
    /\ UNCHANGED <<paretoVars, relVars, obsVars, inferVars>>

PostNext ==
    \/ PostRaiseUnsupported
    \/ PostRaiseValueError
    \/ PostResolveData
    \/ PostPredictStatusQuo
    \/ PostRaiseAxError
    \/ PostReturn

----------------------------------------------------------------------------
(* Specifications: one per entry point, the other entry points idle. *)

InitInfer == InferInit /\ ParetoIdle /\ RelIdle /\ ObsIdle /\ PostIdle

SpecInfer == InitInfer /\ [][InferNext]_vars

InitObs == ObsInit /\ ParetoIdle /\ RelIdle /\ InferIdle /\ PostIdle

SpecObs == InitObs /\ [][ObsNext]_vars

InitPareto == ParetoInit /\ RelIdle /\ ObsIdle /\ InferIdle /\ PostIdle

SpecPareto == InitPareto /\ [][ParetoNext]_vars

InitRel == RelInit /\ ParetoIdle /\ ObsIdle /\ InferIdle /\ PostIdle

SpecRel == InitRel /\ [][RelNext]_vars

InitPosterior == PostInit /\ ParetoIdle /\ RelIdle /\ ObsIdle /\ InferIdle

SpecPosterior == InitPosterior /\ [][PostNext]_vars

----------------------------------------------------------------------------
(* Claims about _extract_observed_pareto_2d, checked under SpecPareto. *)

RowSet(M) == {M[k] : k \in DOMAIN M}

CountRow(M, row) == Cardinality({k \in DOMAIN M : M[k] = row})

\* the directions as the caller states them
Directions == BroadcastMinimize(minimize)

\* a is at least as good as b in dimension i, strictly better in dimension i
AtLeastAsGood(a, b, i) == IF Directions[i] THEN a[i] <= b[i] ELSE a[i] >= b[i]
StrictlyBetter(a, b, i) == IF Directions[i] THEN a[i] < b[i] ELSE a[i] > b[i]

\* a dominates b under the per-dimension directions
DominatesUnder(a, b) ==
    /\ AtLeastAsGood(a, b, 1) /\ AtLeastAsGood(a, b, 2)
    /\ (StrictlyBetter(a, b, 1) \/ StrictlyBetter(a, b, 2))

\* a row is strictly better than the reference point in both dimensions
BeatsReference(row) ==
    \A i \in {1, 2} :
        IF Directions[i] THEN row[i] < reference_point[i]
        ELSE row[i] > reference_point[i]

\* the rows of Y that remain after the optional reference-point filter
Remaining ==
    IF Len(reference_point) > 0 THEN SelectSeq(Y, BeatsReference) ELSE Y

\* the rows of Remaining that no other remaining row dominates
Undominated ==
    LET keep(row) == ~ \E j \in DOMAIN Remaining : DominatesUnder(Remaining[j], row)
    IN  SelectSeq(Remaining, keep)

C2_DescendingAsReturned ==
    ppc = "done" =>
        \A k \in 1..(Len(Y_pareto) - 1) : Y_pareto[k][1] >= Y_pareto[k + 1][1]

\* C2 amended: the returned rows are in descending order of the first column in
\* the higher-is-better orientation: descending in the returned values when the
\* first dimension is maximized, ascending when it is minimized.
C2_BestFirst ==
    ppc = "done" =>
        \A k \in 1..(Len(Y_pareto) - 1) :
            IF Directions[1]
            THEN Y_pareto[k][1] <= Y_pareto[k + 1][1]
            ELSE Y_pareto[k][1] >= Y_pareto[k + 1][1]

\* a minimized first dimension with three rows on the frontier that arrive unsorted
C2_Witness ==
    /\ ppc = "done"
    /\ Directions[1]
    /\ Len(Y_pareto) = 3
    /\ Y = <<Y_pareto[2], Y_pareto[3], Y_pareto[1]>>

\* C3: with a reference point, every returned row is strictly better than it in
\* each dimension: below it where minimizing, above it where maximizing.
C3_StrictlyBeatsReference ==
    (ppc = "done" /\ Len(reference_point) > 0) =>
        \A k \in DOMAIN Y_pareto : \A i \in {1, 2} :
            IF Directions[i]
            THEN Y_pareto[k][i] < reference_point[i]
            ELSE Y_pareto[k][i] > reference_point[i]

\* a reference point, mixed directions, a row returned, and undominated rows of Y
\* that equal the reference point in one dimension and are left out
C3_Witness ==
    /\ ppc = "done"
    /\ Len(reference_point) > 0
    /\ Directions = <<TRUE, FALSE>>
    /\ Len(Y_pareto) > 0
    /\ \E k \in DOMAIN Y : Y[k][1] = reference_point[1] /\ Y[k][2] > reference_point[2]
    /\ \E k \in DOMAIN Y : Y[k][2] = reference_point[2] /\ Y[k][1] < reference_point[1]

----------------------------------------------------------------------------
(* Claims about _relativize_values, checked under SpecRel. *)

\* C4: when the baseline sem and every input sem are present, the means and sems
\* returned are the percent-relative ones of the delta-method routine, not the
\* inputs (baseline 100 +- 2, arm 110 +- 3: about 10, not 110).
C4_ReturnsDeltaMethodValues ==
    (rpc = "done" /\ ~ AnySemMissing(sems, sq_sem)) =>
        rel_out = relativize(means, sems, sq_mean, sq_sem)

\* the scenario of the claim: baseline 100 +- 2, one arm 110 +- 3
C4_Scenario ==
    /\ rpc = "done"
    /\ means = <<Num(110)>> /\ sems = <<Num(9)>>
    /\ sq_mean = Num(100) /\ sq_sem = Num(4)

\* C5: when the baseline sem or an input sem is missing, the means returned are
\* (value / baseline_mean - 1) x 100 and the uncertainty returned is NaN for
\* every point, also where the input sem was present.
C5_PlainMeansAndMissingSems ==
    (rpc = "done" /\ AnySemMissing(sems, sq_sem)) =>
        /\ rel_out[1] = [k \in DOMAIN means |-> PlainRelative(means[k], sq_mean)]
        /\ DOMAIN rel_out[2] = DOMAIN means
        /\ \A k \in DOMAIN means : IsNaN(rel_out[2][k])

----------------------------------------------------------------------------
(* Claims about get_observed_pareto_frontiers, checked under SpecObs. *)

\* the objective metrics whose own threshold is absolute
AbsoluteThresholdMetrics ==
    {m \in objective_metrics : m \in DOMAIN threshold_cfg /\ ~ threshold_cfg[m].relative}

\* C6: with rel left unset, a number of thresholds that differs from the number of
\* objective metrics makes the call fail with UserInputError and return nothing
\* (and nothing else raises that error); when every objective has a threshold a
\* metric is marked relative exactly when its own threshold is relative, so that
\* absolute_metrics is exactly the set of objectives with an absolute threshold;
\* rel = True or False is applied to all objective metrics whatever the thresholds.
C6_RelativityFromThresholdsOrRel ==
    /\ (opc \in {"done", "UserInputError", "KeyError"}
            /\ rel = None
            /\ Cardinality(DOMAIN threshold_cfg) # Cardinality(objective_metrics))
        => (opc = "UserInputError" /\ pfr_list = <<>>)
    /\ opc = "UserInputError" =>
        (rel = None /\ Cardinality(DOMAIN threshold_cfg) # Cardinality(objective_metrics))
    /\ opc = "done" =>
        /\ Len(pfr_list) > 0
        /\ \A k \in DOMAIN pfr_list :
            pfr_list[k].absolute_metrics =
                IF rel = None THEN AbsoluteThresholdMetrics
                ELSE IF rel = "True" THEN {}
                ELSE objective_metrics

\* rel unset, three objectives with a threshold each, relative and absolute ones
C6_Witness ==
    /\ opc = "done"
    /\ rel = None
    /\ Cardinality(objective_metrics) = 3
    /\ DOMAIN threshold_cfg = objective_metrics
    /\ Cardinality(AbsoluteThresholdMetrics) = 1
    /\ pfr_list[1].absolute_metrics = AbsoluteThresholdMetrics

\* the baseline mean of a metric in the data the call used
BaselineMean(m) == data[status_quo][m].mean

\* C7: in every result each threshold is in the reporting convention of its
\* metric: (bound / baseline_mean - 1) x 100 for a relative metric with an
\* absolute threshold, (1 + bound / 100) x baseline_mean for an absolute metric
\* with a relative threshold, the bound itself otherwise; and de-relativizing a
\* relativized absolute bound with the same baseline mean gives the bound back.
C7_ThresholdsInReportingConvention ==
    opc = "done" =>
        \A k \in DOMAIN pfr_list :
            LET r == pfr_list[k]
            IN  /\ DOMAIN r.objective_thresholds = DOMAIN threshold_cfg
                /\ \A m \in DOMAIN threshold_cfg :
                    LET b == threshold_cfg[m].bound
                        thRel == threshold_cfg[m].relative
                        repRel == m \notin r.absolute_metrics
                        out == r.objective_thresholds[m]
                    IN  /\ (repRel /\ ~ thRel) =>
                            /\ out = RMul(RSub(RDiv(b, BaselineMean(m)), Num(1)), Num(100))
                            /\ Derelativize(out, BaselineMean(m)) = b
                        /\ (~ repRel /\ thRel) =>
                            out = RMul(RAdd(Num(1), RDiv(b, Num(100))), BaselineMean(m))
                        /\ (repRel = thRel) => out = b

\* rel = True over an absolute bound of 120 on a baseline of 100: 20 percent
C7_Witness ==
    /\ opc = "done"
    /\ rel = "True"
    /\ \E m \in DOMAIN threshold_cfg :
        /\ threshold_cfg[m] = [relative |-> FALSE, bound |-> Num(120)]
        /\ BaselineMean(m) = Num(100)
        /\ pfr_list[1].objective_thresholds[m] = Num(20)
    /\ \E m \in DOMAIN threshold_cfg :
        /\ threshold_cfg[m].relative
        /\ pfr_list[1].objective_thresholds[m] = threshold_cfg[m].bound

\* the fields every result of one call shares
SharedFields(r) ==
    <<r.param_dicts, r.means, r.sems, r.objective_thresholds, r.absolute_metrics,
      r.arm_names>>

MetricPair(r) == {r.primary_metric, r.secondary_metric}

\* C8: with n objective metrics the call returns n(n-1)/2 results, one for each
\* unordered pair of distinct objective metrics, none twice and none pairing a
\* metric with itself; the results differ only in the pair.
C8_OneResultPerUnorderedPair ==
    opc = "done" =>
        LET n == Cardinality(objective_metrics)
        IN  /\ 2 * Len(pfr_list) = n * (n - 1)
            /\ {MetricPair(pfr_list[k]) : k \in DOMAIN pfr_list}
                   = {S \in SUBSET objective_metrics : Cardinality(S) = 2}
            /\ \A k \in DOMAIN pfr_list :
                   pfr_list[k].primary_metric # pfr_list[k].secondary_metric
            /\ \A j, k \in DOMAIN pfr_list :
                   /\ (j # k) => MetricPair(pfr_list[j]) # MetricPair(pfr_list[k])
                   /\ SharedFields(pfr_list[j]) = SharedFields(pfr_list[k])

\* three objectives, three results, two observations on the frontier
C8_Witness ==
    /\ opc = "done"
    /\ Cardinality(objective_metrics) = 3
    /\ Len(pfr_list) = 3
    /\ Len(pfr_list[1].param_dicts) = 2

\* C9: the call leaves the caller's arm_names list as it was.
C9_ArmNamesUntouched == [][arm_names' = arm_names]_vars

----------------------------------------------------------------------------
(* Claims about infer_reference_point_from_experiment, checked under       *)
(* SpecInfer.                                                              *)

\* the function has returned or raised
InferExited ==
    ipc \in {"done", "ValueError", "RuntimeError", "IndexError", "Exception"}

\* the empty-frontier fallback has cleared the constraints during this call: the
\* local outcome_constraints holds the original, non-empty list
FallbackCleared ==
    ipc \in {"cleared", "recomputed", "done", "IndexError", "Exception"}
        /\ Len(outcome_constraints) # 0

\* C10: whenever the fallback has cleared the outcome constraints, the original
\* constraints are back on the adapter's optimization config on every exit path,
\* the normal return and an error of the unconstrained recomputation alike.
C10_ConstraintsRestoredOnEveryExit ==
    (InferExited /\ FallbackCleared) => cfg_constraints = outcome_constraints

\* the metric whose values stand in column j of f, and whose weight stands in
\* entry j of obj_w, after the reordering of lines 675-680
MetricOfReorderedColumn(j) ==
    frontier.metric_names[ColumnOrder(objective_orders, frontier.metric_names)[j]]

\* the +1/-1 multiplier of objective m
OwnMultiplier(m) == IF ThresholdOf(exp_thresholds, m).op = "LEQ" THEN -1 ELSE 1

\* the bound the nadir primitive gives objective m from the column of m's own
\* values on the frontier, turned to maximization and back with m's multiplier
OwnColumnBound(m) ==
    LET w == Num(OwnMultiplier(m))
        column == [i \in DOMAIN frontier.frontier_observations |->
                      <<RMul(w, frontier.frontier_observations[i][m])>>]
    IN  RMul(w, InferReferencePoint(column)[1])

\* C11: the returned thresholds are a valid nadir (the nadir primitive returning
\* at most each column's minimum): for every objective and every frontier point
\* the bound is no better than the point's value in the objective's own
\* direction; the list has one threshold per original threshold, in the
\* experiment's order, and the experiment's thresholds keep their bounds.
C11_ReturnedThresholdsAreValidNadir ==
    ipc = "done" =>
        /\ Len(nadir_thresholds) = Len(exp_thresholds)
        /\ \A k \in DOMAIN exp_thresholds :
            /\ nadir_thresholds[k].metric = exp_thresholds[k].metric
            /\ nadir_thresholds[k].op = exp_thresholds[k].op
            /\ exp_thresholds[k].bound = Num(0)
            /\ \A i \in DOMAIN frontier.frontier_observations :
                LET value == frontier.frontier_observations[i][exp_thresholds[k].metric]
                IN  IF exp_thresholds[k].op = "LEQ"
                    THEN RLe(value, nadir_thresholds[k].bound)
                    ELSE RLe(nadir_thresholds[k].bound, value)

\* the case of the spec: objectives 1 and 2 maximized, frontier (1,4), (2,3), (3,1)
C11_Scenario ==
    /\ ipc = "done"
    /\ Len(cfg_constraints) = 0
    /\ [k \in DOMAIN exp_thresholds |-> <<exp_thresholds[k].metric, exp_thresholds[k].op>>]
           = << <<1, "GEQ">>, <<2, "GEQ">> >>
    /\ Len(frontier.frontier_observations) = 3

\* C14: for every permutation between the column order of f and
\* objective_orders, after the reordering column j of f and entry j of obj_w
\* belong to metric objective_orders[j], so that every returned threshold
\* receives the nadir value of its own metric's column under its own multiplier.
C14_ColumnsFollowObjectiveOrders ==
    ipc = "done" =>
        /\ \A j \in DOMAIN objective_orders :
               MetricOfReorderedColumn(j) = objective_orders[j]
        /\ \A k \in DOMAIN nadir_thresholds :
               nadir_thresholds[k].bound = OwnColumnBound(nadir_thresholds[k].metric)

\* three metrics whose frontier order is a rotation of objective_orders
C14_Rotation ==
    /\ ipc = "done"
    /\ Len(objective_orders) = 3
    /\ \A j \in 1..3 : frontier.metric_names[j] = objective_orders[(j % 3) + 1]

\* C15: the function never fails with the index error of the reordering step on
\* an empty frontier; an empty frontier that cannot be recovered, also the one
\* recomputed without constraints, ends in the documented RuntimeError (or in
\* ValueError for a missing metric).
C15_EmptyFrontierFailsAsDocumented ==
    /\ ipc # "IndexError"
    /\ (InferExited /\ is_moo /\ ThresholdMetrics(exp_thresholds) \subseteq DataMetrics
            /\ Len(frontier.frontier_observations) = 0
            /\ ipc # "Exception")
        => ipc = "RuntimeError"

\* constraints present and the frontier recomputed without them empty as well
C15_Scenario ==
    /\ ipc = "recomputed"
    /\ Len(outcome_constraints) # 0
    /\ Len(frontier.frontier_observations) = 0

----------------------------------------------------------------------------
(* Claims about compute_posterior_pareto_frontier, checked under            *)
(* SpecPosterior.                                                           *)

\* the function has got past the resolution of its data
DataResolved == qpc \in {"fitted", "predicted", "done", "AxError"}

\* C12: when no data is supplied and a trial index that is a trial of the
\* experiment is supplied, index 0 included, the data is fetched from that
\* trial; the experiment-wide fetch happens only when neither data nor a trial
\* index is supplied.
C12_TrialIndexSelectsTrialFetch ==
    DataResolved =>
        /\ (~data_given /\ trial_index # <<>> /\ trial_index[1] \in Trials)
               => fetched_from = Source("trial", trial_index[1])
        /\ fetched_from.kind = "experiment" => (~data_given /\ trial_index = <<>>)

\* the model is fitted on experiment-wide data although trial 0 was asked for
C12_TrialZero ==
    /\ qpc = "done"
    /\ ~data_given
    /\ trial_index = <<0>>
    /\ has_batch_trial
    /\ fit_data = Source("experiment", -1)

\* the predicted metrics that are to be reported relative
RelativeMetrics == PostMetrics \ absolute_metrics

\* a metric's means and sems in the result are the percent-relative ones
ReportedRelative(metric) ==
    /\ status_quo_prediction # <<>>
    /\ <<posterior_result.means[metric], posterior_result.sems[metric]>> =
           relativize(PredictMeans(num_points)[metric],
                      PredictVariances(num_points)[metric],
                      status_quo_prediction[1][metric][1],
                      status_quo_prediction[2][metric][1])

\* C13: every predicted metric that is not in absolute_metrics is reported
\* percent-relative to the status quo prediction, and when some predicted
\* metric is not in absolute_metrics and there is no status quo prediction the
\* call ends in AxError and returns nothing.
C13_EveryNonAbsoluteMetricRelative ==
    /\ qpc = "done" => \A metric \in RelativeMetrics : ReportedRelative(metric)
    /\ (qpc \in {"done", "AxError"} /\ RelativeMetrics # {}
            /\ status_quo_prediction = <<>>) => qpc = "AxError"

\* both objectives absolute, a third metric not, and a result is returned
C13_OnlyThirdMetricRelative ==
    /\ qpc = "done"
    /\ {primary_metric, secondary_metric} \subseteq absolute_metrics
    /\ RelativeMetrics # {}
    /\ status_quo_prediction # <<>>

====
